---- MODULE Spec2Model ----
(***************************************************************************)
(* Model of the gaze-tracking App component (src/src/App.tsx) and of the   *)
(* static tracker page (src/build/static/tracking.js).                     *)
(*                                                                         *)
(* React state is modelled by the committed values of the useState cells.  *)
(* A handler registered with FaceMesh.onResults is a closure: it reads the *)
(* values of the render in which it was registered, so every registered    *)
(* handler carries a record of the values it captured.                     *)
(*                                                                         *)
(* Numbers are fixed-point integers, SCALE units to 1.0, with four         *)
(* out-of-band values for the IEEE results the code can produce (NaN,      *)
(* +Infinity, -Infinity) and for JavaScript's undefined.                   *)
(***************************************************************************)
EXTENDS Integers, Sequences, FiniteSets, TLC

\* three decimal places
SCALE == 10 * 10 * 10

NaN == 0 - 2000000001
PInf == 2000000002
NInf == 0 - 2000000003
Undef == 0 - 2000000004

IsFin(a) == a \notin {NaN, PInf, NInf, Undef}

IsNaNish(a) == a \in {NaN, Undef}

AbsI(a) == IF a < 0 THEN 0 - a ELSE a

SignI(a) == IF a < 0 THEN 0 - 1 ELSE IF a > 0 THEN 1 ELSE 0

\* sign of an IEEE value that is not NaN (zero counts as positive)
SignJ(a) == IF a = NInf THEN 0 - 1 ELSE IF a = PInf THEN 1 ELSE IF a < 0 THEN 0 - 1 ELSE 1

\* a + b
JAdd(a, b) ==
    IF IsNaNish(a) \/ IsNaNish(b) THEN NaN
    ELSE IF a = PInf THEN (IF b = NInf THEN NaN ELSE PInf)
    ELSE IF a = NInf THEN (IF b = PInf THEN NaN ELSE NInf)
    ELSE IF b \in {PInf, NInf} THEN b
    ELSE a + b

\* -a
JNeg(a) ==
    IF IsNaNish(a) THEN NaN
    ELSE IF a = PInf THEN NInf
    ELSE IF a = NInf THEN PInf
    ELSE 0 - a

\* a - b
JSub(a, b) == JAdd(a, JNeg(b))

\* a * b on fixed-point operands, rounded toward zero
MulFix(a, b) ==
    LET s == SignI(a) * SignI(b)
        x == AbsI(a)
        y == AbsI(b)
    IN  s * ((x \div SCALE) * y + ((x % SCALE) * y) \div SCALE)

\* a / b on fixed-point operands, b # 0, rounded toward zero
DivFix(a, b) ==
    LET s == SignI(a) * SignI(b)
        x == AbsI(a)
        y == AbsI(b)
    IN  s * ((x \div y) * SCALE + ((x % y) * SCALE) \div y)

\* a * b
JMul(a, b) ==
    IF IsNaNish(a) \/ IsNaNish(b) THEN NaN
    ELSE IF a \in {PInf, NInf} \/ b \in {PInf, NInf}
         THEN (IF a = 0 \/ b = 0 THEN NaN
               ELSE IF SignJ(a) * SignJ(b) > 0 THEN PInf ELSE NInf)
    ELSE MulFix(a, b)

\* a / b
JDiv(a, b) ==
    IF IsNaNish(a) \/ IsNaNish(b) THEN NaN
    ELSE IF a \in {PInf, NInf}
         THEN (IF b \in {PInf, NInf} THEN NaN
               ELSE IF SignJ(a) * SignJ(b) > 0 THEN PInf ELSE NInf)
    ELSE IF b \in {PInf, NInf} THEN 0
    ELSE IF b = 0 THEN (IF a = 0 THEN NaN ELSE IF a > 0 THEN PInf ELSE NInf)
    ELSE DivFix(a, b)

\* a < b (false when either side is NaN)
JLt(a, b) ==
    IF IsNaNish(a) \/ IsNaNish(b) THEN FALSE
    ELSE IF a = b THEN FALSE
    ELSE IF a = NInf \/ b = PInf THEN TRUE
    ELSE IF a = PInf \/ b = NInf THEN FALSE
    ELSE a < b

\* a <= b (false when either side is NaN)
JLe(a, b) == (~IsNaNish(a) /\ ~IsNaNish(b)) /\ (a = b \/ JLt(a, b))

\* Math.min(a, b)
JMin(a, b) == IF IsNaNish(a) \/ IsNaNish(b) THEN NaN ELSE IF JLt(b, a) THEN b ELSE a

\* Math.max(a, b)
JMax(a, b) == IF IsNaNish(a) \/ IsNaNish(b) THEN NaN ELSE IF JLt(a, b) THEN b ELSE a

\* Math.abs(a)
JAbs(a) ==
    IF IsNaNish(a) THEN NaN
    ELSE IF a \in {PInf, NInf} THEN PInf
    ELSE AbsI(a)

RECURSIVE SqrtSearch(_, _, _)
\* the largest r in lo..hi with r*r <= n
SqrtSearch(n, lo, hi) ==
    IF lo >= hi THEN lo
    ELSE LET mid == (lo + hi + 1) \div 2
         IN  IF mid * mid <= n THEN SqrtSearch(n, mid, hi) ELSE SqrtSearch(n, lo, mid - 1)

\* Math.sqrt(a) on a fixed-point operand: sqrt(a / SCALE) * SCALE
JSqrt(a) ==
    IF IsNaNish(a) \/ a = NInf THEN NaN
    ELSE IF a = PInf THEN PInf
    ELSE IF a < 0 THEN NaN
    ELSE SqrtSearch(a * SCALE, 0, 46000)

\* isFinite(a)
JIsFinite(a) == IsFin(a)

\* the fixed-point value of the decimal n / d
Dec(n, d) == (n * SCALE) \div d

(***************************************************************************)
(* Landmarks and frames.  A face is an array of n landmarks, held as its   *)
(* length and the points that differ from DefaultPoint; At(face, i) is         *)
(* undefined in the code exactly when i >= n.  A frame is what FaceMesh    *)
(* hands to onResults.                                                     *)
(***************************************************************************)
P3(x, y, z) == [x |-> x, y |-> y, z |-> z]

DefaultPoint == P3(Dec(5, 10), Dec(5, 10), 0)

\* At(face, i) is defined
Has(face, i) == i < face.n

\* At(face, i), for a defined landmark
At(face, i) == IF i \in DOMAIN face.ov THEN face.ov[i] ELSE DefaultPoint

\* Array.prototype.filter((_, i) => idx.includes(i)): the points of face at
\* the indices of idx, in index order
RECURSIVE FaceFilter(_, _)
FaceFilter(face, idx) ==
    IF idx = {} THEN <<>>
    ELSE LET m == CHOOSE k \in idx : \A j \in idx : k <= j
         IN  IF Has(face, m)
             THEN <<At(face, m)>> \o FaceFilter(face, idx \ {m})
             ELSE FaceFilter(face, idx \ {m})

RECURSIVE SumX(_)
\* reduce((sum, p) => sum + p.x, 0)
SumX(ps) == IF ps = <<>> THEN 0 ELSE JAdd(SumX(SubSeq(ps, 1, Len(ps) - 1)), ps[Len(ps)].x)

RECURSIVE SumY(_)
\* reduce((sum, p) => sum + p.y, 0)
SumY(ps) == IF ps = <<>> THEN 0 ELSE JAdd(SumY(SubSeq(ps, 1, Len(ps) - 1)), ps[Len(ps)].y)

RECURSIVE SumZ(_)
\* reduce((sum, p) => sum + p.z, 0)
SumZ(ps) == IF ps = <<>> THEN 0 ELSE JAdd(SumZ(SubSeq(ps, 1, Len(ps) - 1)), ps[Len(ps)].z)

LEFT_EYE_IDX == {33, 246, 161, 160, 159, 158, 157, 173}

RIGHT_EYE_IDX == {398, 384, 385, 386, 387, 388, 466, 263}

FACE_OVAL_IDX == {10, 338, 297, 332, 284, 251, 389, 356, 454, 323, 361, 288, 397, 365, 379, 378, 400, 377, 152}

\* the calibration targets, as fixed-point (x, y)
CALIBRATION_POINTS ==
    << [x |-> Dec(1, 10), y |-> Dec(1, 10)], [x |-> Dec(5, 10), y |-> Dec(1, 10)], [x |-> Dec(9, 10), y |-> Dec(1, 10)],
       [x |-> Dec(1, 10), y |-> Dec(5, 10)], [x |-> Dec(5, 10), y |-> Dec(5, 10)], [x |-> Dec(9, 10), y |-> Dec(5, 10)],
       [x |-> Dec(1, 10), y |-> Dec(9, 10)], [x |-> Dec(5, 10), y |-> Dec(9, 10)], [x |-> Dec(9, 10), y |-> Dec(9, 10)] >>

\* CALIBRATION_POINTS[i] with the code's 0-based index
CalibrationPoint(i) == CALIBRATION_POINTS[i + 1]

VSub(a, b) == P3(JSub(a.x, b.x), JSub(a.y, b.y), JSub(a.z, b.z))

VDot(a, b) == JAdd(JAdd(JMul(a.x, b.x), JMul(a.y, b.y)), JMul(a.z, b.z))

VCross(a, b) ==
    P3(JSub(JMul(a.y, b.z), JMul(a.z, b.y)),
       JSub(JMul(a.z, b.x), JMul(a.x, b.z)),
       JSub(JMul(a.x, b.y), JMul(a.y, b.x)))

VMag(a) == JSqrt(VDot(a, a))

VScaleDown(a, m) == P3(JDiv(a.x, m), JDiv(a.y, m), JDiv(a.z, m))

VMid(a, b) == P3(JDiv(JAdd(a.x, b.x), 2 * SCALE), JDiv(JAdd(a.y, b.y), 2 * SCALE), JDiv(JAdd(a.z, b.z), 2 * SCALE))

\* vector minus dot times headPose
SubtractAlong(vector, headPose, dot) ==
    P3(JSub(vector.x, JMul(dot, headPose.x)),
       JSub(vector.y, JMul(dot, headPose.y)),
       JSub(vector.z, JMul(dot, headPose.z)))

\* a variant that removes only half of the component along headPose
adjustGazeHalfway(vector, headPose) ==
    SubtractAlong(vector, headPose, JDiv(VDot(vector, headPose), 2 * SCALE))

adjustGazeForHeadPose(vector, headPose) == SubtractAlong(vector, headPose, VDot(vector, headPose))

\* Math.max(0, Math.min(v, bound)), bound in pixels
Clamp(v, bound) == JMax(0, JMin(v, bound * SCALE))

(***************************************************************************)
(* onResults of App.tsx, as functions of the frame, the window size and    *)
(* the values the handler's closure captured.  A computation of the code   *)
(* is one operator per step, each step's values handed on as parameters.   *)
(***************************************************************************)
NoPoint == [x |-> Undef, y |-> Undef]

Pt(x, y) == [x |-> x, y |-> y]

\* const [[a, b, c], [d, e, f]] = calibrationMatrix, applied to (gx, gy)
ApplyMatrix(m, gx, gy) ==
    Pt(JAdd(JAdd(JMul(m[1][1], gx), JMul(m[1][2], gy)), m[1][3]),
       JAdd(JAdd(JMul(m[2][1], gx), JMul(m[2][2], gy)), m[2][3]))

\* Math.max(0, Math.min(screenX, innerWidth)) and the same for screenY
ClampPoint(p, W, H) == Pt(Clamp(p.x, W), Clamp(p.y, H))

\* the mean of the x and of the y of a list of points (0/0 is NaN)
Center2D(ps) == Pt(JDiv(SumX(ps), Len(ps) * SCALE), JDiv(SumY(ps), Len(ps) * SCALE))

\* the mean of two 2D points
Mid2D(l, r) == Pt(JDiv(JAdd(l.x, r.x), 2 * SCALE), JDiv(JAdd(l.y, r.y), 2 * SCALE))

\* the 2D gaze position: the mean of the two eye centres
Gaze2D(face) == Mid2D(Center2D(FaceFilter(face, LEFT_EYE_IDX)), Center2D(FaceFilter(face, RIGHT_EYE_IDX)))

\* the screen point of the 2D gaze g before clamping
Project2D(g, W, H, matrix) ==
    IF Len(matrix) > 0 THEN ApplyMatrix(matrix, g.x, g.y)
    ELSE Pt(JMul(g.x, W * SCALE), JMul(g.y, H * SCALE))

\* the 2D screen point, clamped to the window
Screen2D(face, W, H, matrix) == ClampPoint(Project2D(Gaze2D(face), W, H, matrix), W, H)

Threw == [ok |-> FALSE]

\* the unit vector of n, whose magnitude is m; the code throws when m === 0
NormalizeOrThrow(n, m) == IF m = 0 THEN Threw ELSE [ok |-> TRUE, v |-> VScaleDown(n, m)]

\* head pose from the filtered face-oval points
HeadPoseOfOval(faceOval) ==
    IF Len(faceOval) = 0 THEN Threw
    ELSE IF Len(faceOval) < 17 THEN Threw
    ELSE NormalizeOrThrow(VCross(VSub(faceOval[9], faceOval[1]), VSub(faceOval[17], faceOval[1])),
                          VMag(VCross(VSub(faceOval[9], faceOval[1]), VSub(faceOval[17], faceOval[1]))))

\* head pose of the 3D path: the normalised normal of three face-oval points
HeadPose3D(face) == HeadPoseOfOval(FaceFilter(face, FACE_OVAL_IDX))

\* position of an iris relative to its eye: iris minus the eye's mid lines
EyePosition(face, iris, c1, c2, top, bottom) ==
    P3(JSub(At(face, iris).x, JDiv(JAdd(At(face, c1).x, At(face, c2).x), 2 * SCALE)),
       JSub(At(face, iris).y, JDiv(JAdd(At(face, top).y, At(face, bottom).y), 2 * SCALE)),
       JSub(At(face, iris).z, JDiv(JAdd(At(face, c1).z, At(face, c2).z), 2 * SCALE)))

\* the landmarks the 3D path dereferences; reading a field of a missing one throws
EYE_DEREF_IDX == {468, 33, 133, 159, 145, 473, 362, 263, 386, 374}

\* a landmark the eye computation reads is missing, or an eye outline is empty
EyesThrow(face) ==
    \/ \E i \in EYE_DEREF_IDX : ~Has(face, i)
    \/ Len(FaceFilter(face, LEFT_EYE_IDX)) = 0
    \/ Len(FaceFilter(face, RIGHT_EYE_IDX)) = 0

screenDistance == Dec(6, 10)

screenWidthMeters == Dec(4, 10)

\* screenWidth * (innerHeight / innerWidth)
screenHeightMeters(W, H) == JMul(screenWidthMeters, JDiv(H * SCALE, W * SCALE))

\* the combined gaze vector: the mean of the two adjusted eye positions
GazeVector(face, headPose) ==
    VMid(adjustGazeForHeadPose(EyePosition(face, 468, 33, 133, 159, 145), headPose),
         adjustGazeForHeadPose(EyePosition(face, 473, 362, 263, 386, 374), headPose))

\* the relative gaze from the intersection parameter t
Gaze3DProject(W, H, headPose, gazeVector, normalizedGaze, t) ==
    IF ~JIsFinite(t) \/ JLt(t, 0) THEN Threw
    ELSE [ok |-> TRUE,
          relX |-> JDiv(JAdd(gazeVector.x, JMul(normalizedGaze.x, t)), JDiv(screenWidthMeters, 2 * SCALE)),
          relY |-> JDiv(JAdd(gazeVector.y, JMul(normalizedGaze.y, t)), JDiv(screenHeightMeters(W, H), 2 * SCALE)),
          gaze |-> gazeVector,
          headPose |-> headPose]

\* t = -screenDistance / normalizedGaze.z
Gaze3DIntersect(W, H, headPose, gazeVector, normalizedGaze) ==
    Gaze3DProject(W, H, headPose, gazeVector, normalizedGaze, JDiv(JNeg(screenDistance), normalizedGaze.z))

\* the code throws when the gaze vector's magnitude === 0
Gaze3DNormalize(W, H, headPose, gazeVector, gazeVectorMagnitude) ==
    IF gazeVectorMagnitude = 0 THEN Threw
    ELSE Gaze3DIntersect(W, H, headPose, gazeVector, VScaleDown(gazeVector, gazeVectorMagnitude))

Gaze3DFromVector(W, H, headPose, gazeVector) ==
    Gaze3DNormalize(W, H, headPose, gazeVector, VMag(gazeVector))

Gaze3DWithPose(face, W, H, hp) ==
    IF ~hp.ok THEN Threw
    ELSE IF EyesThrow(face) THEN Threw
    ELSE Gaze3DFromVector(W, H, hp.v, GazeVector(face, hp.v))

\* the 3D path up to the relative gaze: [ok, relX, relY, gaze, headPose]
Gaze3D(face, W, H) == Gaze3DWithPose(face, W, H, HeadPose3D(face))

\* the screen point of the relative gaze g before clamping
Project3D(g, W, H, matrix) ==
    IF Len(matrix) > 0 THEN ApplyMatrix(matrix, g.relX, g.relY)
    ELSE Pt(JMul(JDiv(JAdd(g.relX, SCALE), 2 * SCALE), W * SCALE),
            JMul(JDiv(JAdd(g.relY, SCALE), 2 * SCALE), H * SCALE))

\* the 3D screen point, clamped to the window
Screen3D(g, W, H, matrix) == ClampPoint(Project3D(g, W, H, matrix), W, H)

\* a capability check that every face passes
Has3DTrackingAlways(face) == TRUE

\* face[468] && face[473], and face[468].z !== undefined
Has3DTracking(face) == Has(face, 468) /\ Has(face, 473) /\ At(face, 468).z # Undef

(***************************************************************************)
(* Concrete frames.  The face-oval landmarks 10, 338 and 397 are the ones  *)
(* the 3D path reads as faceOval[0], faceOval[8] and faceOval[16].         *)
(***************************************************************************)
\* a face of n landmarks, all at DefaultPoint except those of ov
MkFace(n, ov) == [n |-> n, ov |-> ov]

\* face-oval points whose normal is the unit vector along x
OvalAlongX == (10 :> P3(0, 0, 0)) @@ (338 :> P3(0, SCALE, 0)) @@ (397 :> P3(0, 0, SCALE))

\* face-oval points whose normal is the unit vector along y
OvalAlongY == (10 :> P3(0, 0, 0)) @@ (338 :> P3(0, 0, SCALE)) @@ (397 :> P3(SCALE, 0, 0))

\* both iris centres at the same point
Irises(x, y, z) == (468 :> P3(x, y, z)) @@ (473 :> P3(x, y, z))

\* all eye-contour landmarks of the left eye at (lx, y), of the right eye at (rx, y)
Contours(lx, rx, y) ==
    [i \in LEFT_EYE_IDX \cup RIGHT_EYE_IDX |-> IF i \in LEFT_EYE_IDX THEN P3(lx, y, 0) ELSE P3(rx, y, 0)]

NoLandmarks == [kind |-> "no_landmarks"]

NoFace == [kind |-> "no_face"]

FaceFrame(name, face) == [kind |-> "face", name |-> name, face |-> face]

FrameName(frame) == IF frame.kind = "face" THEN frame.name ELSE frame.kind

\* gaze straight down the z axis: the screen centre
F3DCentre == FaceFrame("3d_centre", MkFace(478, OvalAlongX @@ Irises(Dec(5, 10), Dec(5, 10), 0 - Dec(5, 10))))

\* gaze slightly below the centre
F3DLow == FaceFrame("3d_low", MkFace(478, OvalAlongX @@ Irises(Dec(5, 10), Dec(53, 100), 0 - Dec(5, 10))))

\* gaze far above the screen
F3DHigh == FaceFrame("3d_high", MkFace(478, OvalAlongX @@ Irises(Dec(5, 10), 0 - Dec(5, 10), 0 - Dec(5, 10))))

\* gaze left of the centre
F3DLeft == FaceFrame("3d_left", MkFace(478, OvalAlongY @@ Irises(Dec(45, 100), Dec(5, 10), 0 - Dec(5, 10))))

\* gaze far right of the screen
F3DRight == FaceFrame("3d_right", MkFace(478, OvalAlongY @@ Irises(Dec(15, 10), Dec(5, 10), 0 - Dec(5, 10))))

\* gaze pointing away from the screen (z > 0)
F3DAway == FaceFrame("3d_away", MkFace(478, OvalAlongX @@ Irises(Dec(5, 10), Dec(5, 10), Dec(5, 10)) @@ Contours(Dec(3, 10), Dec(7, 10), Dec(4, 10))))

\* gaze parallel to the screen (z = 0)
F3DParallel == FaceFrame("3d_parallel", MkFace(478, OvalAlongX @@ Irises(Dec(5, 10), Dec(6, 10), 0)))

\* collinear face-oval points (all at DefaultPoint)
F3DCollinear == FaceFrame("3d_collinear", MkFace(478, Irises(Dec(5, 10), Dec(5, 10), 0 - Dec(5, 10)) @@ Contours(Dec(2, 10), Dec(4, 10), Dec(9, 10))))

\* a face without iris landmarks
F2D == FaceFrame("2d", MkFace(468, Contours(Dec(3, 10), Dec(7, 10), Dec(4, 10))))

\* a face without iris landmarks whose eyes lie outside the image
F2DOutside == FaceFrame("2d_outside", MkFace(468, Contours(Dec(12, 10), Dec(14, 10), 0 - Dec(1, 10))))

\* iris landmarks without depth
F2DNoDepth == FaceFrame("2d_no_depth", MkFace(478, Irises(Dec(5, 10), Dec(5, 10), Undef) @@ Contours(Dec(1, 10), Dec(3, 10), Dec(6, 10))))

\* a face with too few landmarks to hold any eye contour
FShort == FaceFrame("short", MkFace(20, <<>>))

\* eye corners whose vectors have the unit normal along x
CornersAlongX == (33 :> P3(Dec(5, 10), Dec(15, 10), 0)) @@ (362 :> P3(Dec(5, 10), Dec(5, 10), SCALE))

\* a face the statements after the try/catch statement accept: gaze at the centre
FCollectCentre == FaceFrame("collect_centre", MkFace(478, OvalAlongX @@ CornersAlongX @@ Irises(Dec(5, 10), Dec(5, 10), 0 - Dec(5, 10))))

\* a face the statements after the try/catch statement accept: gaze below the centre
FCollectLow == FaceFrame("collect_low", MkFace(478, OvalAlongX @@ CornersAlongX @@ Irises(Dec(5, 10), Dec(53, 100), 0 - Dec(5, 10))))

CollectFrames == {FCollectCentre, FCollectLow}

Frames == {NoLandmarks, NoFace, F3DCentre, F3DLow, F3DHigh, F3DLeft, F3DRight, F3DAway,
           F3DParallel, F3DCollinear, F2D, F2DOutside, F2DNoDepth, FShort}

\* window.innerWidth, window.innerHeight
WindowSizes == {<<200, 100>>, <<100, 100>>}

(***************************************************************************)
(* The component's state.                                                  *)
(***************************************************************************)
VARIABLES
    webcamInitialized,  \* useState: the camera permission was granted
    isTracking,         \* useState
    calibrationMode,    \* useState: "idle", "collecting" or "complete"
    calibrationMatrix,  \* useState: <<>> or the rows of the solver's result
    calibrationState,   \* useState: [currentPoint, eyePositions, headPoses]
    error,              \* useState: an error is shown
    mountStage,         \* initializeWebcam of the mount effect: "pending" or "done"
    mountCamera,        \* the mount effect's camera is running
    trackClosure,       \* the values captured by the handler the tracking effect registered
    trackCamera,        \* the tracking effect's camera is running
    win,                \* <<window.innerWidth, window.innerHeight>>
    cursorControl,      \* window.webkit.messageHandlers.cursorControl exists
    drawn,              \* the gaze point last handed to the canvas
    posted,             \* the point last posted to cursorControl
    target,             \* the index of the calibration target last drawn, or -1
    lastOp,             \* the operation that ran last
    lastPath,           \* the path the last onResults took
    lastFrame,          \* the frame the last onResults was given
    modelWriter,        \* the operation that last called setCalibrationMatrix
    bufferWriter,       \* the operation that last wrote calibrationState or its arrays
    recorded,           \* samples pushed since the last start command
    solverCalls,        \* calls of calculateCalibrationMatrix since the last start command
    solverInput,        \* the arguments of the last call of calculateCalibrationMatrix
    raw,                \* the point the last frame gives without a calibration matrix
    tjsScreen,          \* tracking.js: <<screenWidth, screenHeight>>
    tjsGazePoint,       \* tracking.js: the point last given to updateGazePointPosition
    debugValues,        \* direct tracker: useState, what setDebugValues was last given
    cursor,             \* direct tracker: the point updateCursor last drew
    callback,           \* direct tracker: how the last faceMesh.onResults callback ended
    eyeRotations,       \* direct tracker: what calculateEyeRotation last returned, left and right
    title,              \* ReportDialog: useState
    content,            \* ReportDialog: useState
    timers,             \* ReportDialog: the pending setTimeout callbacks, each with what it captured
    lastSave,           \* ReportDialog: what onSave was last given
    sinceChange,        \* ReportDialog: milliseconds since title or content last changed
    adjustArgs,         \* the arguments given to adjustGazeForHeadPose
    adjusted            \* what adjustGazeForHeadPose returned, applied once and twice

vars == <<webcamInitialized, isTracking, calibrationMode, calibrationMatrix, calibrationState,
          error, mountStage, mountCamera, trackClosure, trackCamera, win, cursorControl,
          drawn, posted, target, lastOp, lastPath, lastFrame, modelWriter, bufferWriter, recorded,
          solverCalls, solverInput, raw, tjsScreen, tjsGazePoint,
          debugValues, cursor, callback, eyeRotations,
          title, content, timers, lastSave, sinceChange, adjustArgs, adjusted>>

reactState == <<webcamInitialized, isTracking, calibrationMode, calibrationMatrix, calibrationState, error>>

\* useState<CalibrationState>({ currentPoint: 0, eyePositions: [], headPoses: [] })
InitialCalibrationState == [currentPoint |-> 0, eyePositions |-> <<>>, headPoses |-> <<>>]

\* what a handler registered in a render reads
Closure(tracking, mode, matrix, state) ==
    [isTracking |-> tracking, calibrationMode |-> mode, calibrationMatrix |-> matrix, calibrationState |-> state]

\* the handler the mount effect registers is the onResults of the first render
MountClosure == Closure(FALSE, "idle", <<>>, InitialCalibrationState)

NoSolverInput == [eyePositions |-> <<>>, screenPositions |-> <<>>, headPoses |-> <<>>]

\* an output that is posted to the cursor sink whatever the calibration
OutputAlwaysPosts(path, p, post) ==
    [path |-> path, drew |-> TRUE, drawn |-> p, post |-> TRUE, posted |-> p, fallsThrough |-> FALSE]

\* what onResults did: the path it took, the point it drew and the point it posted
Output(path, p, post) ==
    [path |-> path, drew |-> TRUE, drawn |-> p, post |-> post, posted |-> p, fallsThrough |-> FALSE]

\* a return of onResults before anything is drawn
Returned(path) ==
    [path |-> path, drew |-> FALSE, drawn |-> NoPoint, post |-> FALSE, posted |-> NoPoint, fallsThrough |-> FALSE]

\* the 2D block of onResults (the early 2D path and the catch block share it):
\* it draws the point, posts it when calibrated, and returns
Run2D(c, face, W, H, sink, path) ==
    Output(path, Screen2D(face, W, H, c.calibrationMatrix), Len(c.calibrationMatrix) > 0 /\ sink)

\* the catch block: the 2D fallback
Catch(c, face, W, H, sink) ==
    IF Len(FaceFilter(face, LEFT_EYE_IDX)) = 0 \/ Len(FaceFilter(face, RIGHT_EYE_IDX)) = 0
    THEN Returned("catch_no_eyes")
    ELSE Run2D(c, face, W, H, sink, "catch_2d")

\* the end of the try block, from the relative gaze g: it draws the point,
\* posts it when calibrated, and returns
Finish3D(c, face, W, H, sink, g) ==
    IF ~g.ok THEN Catch(c, face, W, H, sink)
    ELSE Output("3d", Screen3D(g, W, H, c.calibrationMatrix), Len(c.calibrationMatrix) > 0 /\ sink)

\* the try/catch statement of onResults: both blocks return
Run3D(c, face, W, H, sink) == Finish3D(c, face, W, H, sink, Gaze3D(face, W, H))

\* onResults up to the end of its try/catch statement
Handle(c, frame, W, H, sink) ==
    IF frame.kind = "no_landmarks" THEN Returned("no_landmarks")
    ELSE IF ~c.isTracking /\ c.calibrationMode # "collecting" THEN Returned("guard")
    ELSE IF frame.kind = "no_face" THEN Returned("no_face")
    ELSE IF ~Has3DTracking(frame.face) THEN Run2D(c, frame.face, W, H, sink, "2d")
    ELSE Run3D(c, frame.face, W, H, sink)

(***************************************************************************)
(* calculateCalibrationMatrix.                                             *)
(***************************************************************************)
ZeroSums ==
    [sumX |-> 0, sumY |-> 0, sumZ |-> 0, sumXX |-> 0, sumXY |-> 0, sumYY |-> 0,
     sumScreenX |-> 0, sumScreenY |-> 0, sumXScreenX |-> 0, sumYScreenX |-> 0,
     sumXScreenY |-> 0, sumYScreenY |-> 0]

\* headPoses?.[i] || { x: 0, y: 0, z: 1 }
HeadPoseAt(headPoses, i) == IF i <= Len(headPoses) THEN headPoses[i] ELSE P3(0, 0, SCALE)

\* headFactor * depthFactor
SampleWeight(e, headPose) == JMul(JAbs(headPose.z), JDiv(SCALE, JAdd(SCALE, JAbs(e.z))))

\* one iteration of the accumulation loop, from the weighted coordinates
AccumulateWeighted(s, e, screen, wx, wy, wz) ==
    [sumX |-> JAdd(s.sumX, wx), sumY |-> JAdd(s.sumY, wy), sumZ |-> JAdd(s.sumZ, wz),
     sumXX |-> JAdd(s.sumXX, JMul(wx, e.x)), sumXY |-> JAdd(s.sumXY, JMul(wx, e.y)),
     sumYY |-> JAdd(s.sumYY, JMul(wy, e.y)),
     sumScreenX |-> JAdd(s.sumScreenX, screen.x), sumScreenY |-> JAdd(s.sumScreenY, screen.y),
     sumXScreenX |-> JAdd(s.sumXScreenX, JMul(wx, screen.x)),
     sumYScreenX |-> JAdd(s.sumYScreenX, JMul(wy, screen.x)),
     sumXScreenY |-> JAdd(s.sumXScreenY, JMul(wx, screen.y)),
     sumYScreenY |-> JAdd(s.sumYScreenY, JMul(wy, screen.y))]

\* one iteration of the accumulation loop
Accumulate(s, e, screen, weight) ==
    AccumulateWeighted(s, e, screen, JMul(e.x, weight), JMul(e.y, weight), JMul(e.z, weight))

RECURSIVE SolverSums(_, _, _, _)
\* the sums after the first k iterations of the accumulation loop
SolverSums(eyePositions, screenPositions, headPoses, k) ==
    IF k = 0 THEN ZeroSums
    ELSE Accumulate(SolverSums(eyePositions, screenPositions, headPoses, k - 1),
                    eyePositions[k], screenPositions[k],
                    SampleWeight(eyePositions[k], HeadPoseAt(headPoses, k)))

\* if (Math.abs(det) < 1e-10) return [[1, 0, 0], [0, 1, 0]]
IdentityFallback == << <<SCALE, 0, 0>>, <<0, SCALE, 0>> >>

\* the determinant test left out
DetNeverSingular(det) == FALSE

\* Math.abs(det) < 1e-10: 1e-10 is below the fixed-point resolution, so the
\* test is that det is less than one unit in magnitude
DetIsSingular(det) == JLt(JAbs(det), 1)

\* the returned rows, from the linear coefficients
SolverRows(s, n, a, b, d, e, depthScale) ==
    << <<JMul(a, depthScale), JMul(b, depthScale),
         JDiv(JSub(JSub(s.sumScreenX, JMul(a, s.sumX)), JMul(b, s.sumY)), n * SCALE)>>,
       <<JMul(d, depthScale), JMul(e, depthScale),
         JDiv(JSub(JSub(s.sumScreenY, JMul(d, s.sumX)), JMul(e, s.sumY)), n * SCALE)>> >>

\* the weighted least squares solution, from the sums and their determinant
SolveWithDet(s, n, det) ==
    IF DetIsSingular(det) THEN IdentityFallback
    ELSE SolverRows(s, n,
                    JDiv(JSub(JMul(s.sumXScreenX, s.sumYY), JMul(s.sumYScreenX, s.sumXY)), det),
                    JDiv(JSub(JMul(s.sumXX, s.sumYScreenX), JMul(s.sumXY, s.sumXScreenX)), det),
                    JDiv(JSub(JMul(s.sumXScreenY, s.sumYY), JMul(s.sumYScreenY, s.sumXY)), det),
                    JDiv(JSub(JMul(s.sumXX, s.sumYScreenY), JMul(s.sumXY, s.sumXScreenY)), det),
                    JDiv(SCALE, JAdd(SCALE, JAbs(JDiv(s.sumZ, n * SCALE)))))

SolveFromSums(s, n) == SolveWithDet(s, n, JSub(JMul(s.sumXX, s.sumYY), JMul(s.sumXY, s.sumXY)))

calculateCalibrationMatrix(eyePositions, screenPositions, headPoses) ==
    SolveFromSums(SolverSums(eyePositions, screenPositions, headPoses, Len(eyePositions)), Len(eyePositions))

(***************************************************************************)
(* The part of onResults after its try/catch statement (lines 549-797):    *)
(* the sample it derives from a frame and the calibration collection block.*)
(***************************************************************************)
\* the head pose of this part: the normalised cross product of the eye-corner vectors
HeadPoseOfEyes(face) ==
    NormalizeOrThrow(VCross(VSub(At(face, 33), At(face, 133)), VSub(At(face, 362), At(face, 263))),
                     VMag(VCross(VSub(At(face, 33), At(face, 133)), VSub(At(face, 362), At(face, 263)))))

\* the sample and the screen point, from the relative gaze g
SampleOfGaze(g, W, H, matrix) ==
    IF ~g.ok THEN Threw
    ELSE [ok |-> TRUE, eye |-> g.gaze, headPose |-> g.headPose, screen |-> Screen3D(g, W, H, matrix)]

\* the sample the collection block records: the mean adjusted gaze and the
\* head pose from the eye-corner vectors; not ok when the code throws first
Sample(face, W, H, matrix) ==
    IF EyesThrow(face) THEN Threw
    ELSE SampleOfGaze(Gaze3DWithPose(face, W, H, HeadPoseOfEyes(face)), W, H, matrix)

\* a threshold one sample short
SamplesPerPointShort == 30 - 1

\* eyePositions.length >= 30
SamplesPerPoint == 30

\* a last target index past the end of CALIBRATION_POINTS
LastPointBeyond == Len(CALIBRATION_POINTS)

\* currentPoint < 8
LastPoint == 8

\* the mean of a list of points
Average(ps) ==
    P3(JDiv(SumX(ps), Len(ps) * SCALE), JDiv(SumY(ps), Len(ps) * SCALE), JDiv(SumZ(ps), Len(ps) * SCALE))

\* the arguments the collection block passes to calculateCalibrationMatrix
SolverArguments(eyePositions, headPoses, currentPoint) ==
    [eyePositions |-> <<Average(eyePositions)>>,
     screenPositions |-> <<CalibrationPoint(currentPoint)>>,
     headPoses |-> <<headPoses[Len(headPoses)]>>]

\* a variant of AdvancePoint that passes over a target
AdvancePointSkipping(currentPoint) ==
    /\ calibrationState' = [currentPoint |-> currentPoint + 2, eyePositions |-> <<>>, headPoses |-> <<>>]
    /\ target' = currentPoint + 2
    /\ UNCHANGED <<calibrationMatrix, calibrationMode, modelWriter, solverCalls, solverInput>>

\* setCalibrationState({ currentPoint: currentPoint + 1, eyePositions: [], headPoses: [] })
\* and the drawing of the next target
AdvancePoint(currentPoint) ==
    /\ calibrationState' = [currentPoint |-> currentPoint + 1, eyePositions |-> <<>>, headPoses |-> <<>>]
    /\ target' = currentPoint + 1
    /\ UNCHANGED <<calibrationMatrix, calibrationMode, modelWriter, solverCalls, solverInput>>

\* a variant of CompleteCalibration that installs the first row only
CompleteCalibrationFirstRow(currentPoint, eyePositions, headPoses, args) ==
    /\ calibrationMatrix' = <<calculateCalibrationMatrix(args.eyePositions, args.screenPositions, args.headPoses)[1]>>
    /\ calibrationMode' = "complete"
    /\ calibrationState' = [currentPoint |-> currentPoint, eyePositions |-> eyePositions, headPoses |-> headPoses]
    /\ modelWriter' = "onResults"
    /\ solverCalls' = solverCalls + 1
    /\ solverInput' = args
    /\ UNCHANGED target

\* the solver call and the installation of its result
CompleteCalibration(currentPoint, eyePositions, headPoses, args) ==
    /\ calibrationMatrix' = calculateCalibrationMatrix(args.eyePositions, args.screenPositions, args.headPoses)
    /\ calibrationMode' = "complete"
    /\ calibrationState' = [currentPoint |-> currentPoint, eyePositions |-> eyePositions, headPoses |-> headPoses]
    /\ modelWriter' = "onResults"
    /\ solverCalls' = solverCalls + 1
    /\ solverInput' = args
    /\ UNCHANGED target

\* the collection block after the two pushes
AfterPush(currentPoint, eyePositions, headPoses) ==
    IF Len(eyePositions) >= SamplesPerPoint
    THEN IF currentPoint < LastPoint
         THEN AdvancePoint(currentPoint)
         ELSE CompleteCalibration(currentPoint, eyePositions, headPoses,
                                  SolverArguments(eyePositions, headPoses, currentPoint))
    ELSE /\ calibrationState' = [currentPoint |-> currentPoint, eyePositions |-> eyePositions, headPoses |-> headPoses]
         /\ UNCHANGED <<calibrationMatrix, calibrationMode, modelWriter, target, solverCalls, solverInput>>

\* the collection block, run by a handler whose closure is c, on the sample
\* smp; the pushes are made on the state object the closure holds
CollectionBlock(c, smp) ==
    /\ bufferWriter' = "onResults"
    /\ recorded' = recorded + 1
    /\ AfterPush(c.calibrationState.currentPoint,
                 Append(c.calibrationState.eyePositions, smp.eye),
                 Append(c.calibrationState.headPoses, smp.headPose))

(***************************************************************************)
(* The component's operations.                                             *)
(***************************************************************************)
\* useState of the direct tracker: { headPose: null, leftGaze: null, rightGaze: null }
NoDebugValues == [headPose |-> "null", leftGaze |-> "null", rightGaze |-> "null"]

\* onSave has not been called
NoSave == [kind |-> "none", title |-> "", content |-> ""]

\* no ReportDialog is mounted
ReportUnmounted ==
    /\ title = ""
    /\ content = ""
    /\ timers = {}
    /\ lastSave = NoSave
    /\ sinceChange = 0

\* adjustGazeForHeadPose has not been applied
ProjectionIdle ==
    /\ adjustArgs = [vector |-> P3(0, 0, 0), headPose |-> P3(0, 0, SCALE)]
    /\ adjusted = <<>>

\* the direct tracker before its first frame
DirectInit ==
    /\ debugValues = NoDebugValues
    /\ cursor = NoPoint
    /\ callback = "none"
    /\ eyeRotations = <<>>

Init ==
    /\ webcamInitialized = FALSE
    /\ isTracking = FALSE
    /\ calibrationMode = "idle"
    /\ calibrationMatrix = <<>>
    /\ calibrationState = InitialCalibrationState
    /\ error = FALSE
    /\ mountStage = "pending"
    /\ mountCamera = FALSE
    /\ trackClosure = MountClosure
    /\ trackCamera = FALSE
    /\ win \in WindowSizes
    /\ cursorControl \in BOOLEAN
    /\ drawn = NoPoint
    /\ posted = NoPoint
    /\ target = 0 - 1
    /\ lastOp = "init"
    /\ lastPath = "none"
    /\ lastFrame = "none"
    /\ modelWriter = "none"
    /\ bufferWriter = "none"
    /\ recorded = 0
    /\ solverCalls = 0
    /\ solverInput = NoSolverInput
    /\ raw = NoPoint
    /\ tjsScreen = <<0, 0>>
    /\ tjsGazePoint = NoPoint
    /\ DirectInit
    /\ ReportUnmounted
    /\ ProjectionIdle

outputs == <<drawn, posted, raw, target, lastPath, lastFrame>>

tracker == <<tjsScreen, tjsGazePoint>>

direct == <<debugValues, cursor, callback, eyeRotations>>

report == <<title, content, timers, lastSave, sinceChange>>

projection == <<adjustArgs, adjusted>>

history == <<modelWriter, bufferWriter, recorded, solverCalls, solverInput>>

handlers == <<mountStage, mountCamera, trackClosure, trackCamera>>

\* the mount effect: getUserMedia resolves, the handler of the first render is
\* registered, and the camera starts when the video element is already
\* mounted (started) or not (the re-render is still pending)
WebcamGranted ==
    /\ mountStage = "pending"
    /\ mountStage' = "done"
    /\ webcamInitialized' = TRUE
    /\ error' = FALSE
    /\ mountCamera' \in BOOLEAN
    /\ lastOp' = "initializeWebcam"
    /\ UNCHANGED <<isTracking, calibrationMode, calibrationMatrix, calibrationState,
                   trackClosure, trackCamera, win, cursorControl, outputs, history, tracker, direct, report, projection>>

\* the mount effect: getUserMedia rejects
WebcamDenied ==
    /\ mountStage = "pending"
    /\ mountStage' = "done"
    /\ webcamInitialized' = FALSE
    /\ error' = TRUE
    /\ lastOp' = "initializeWebcam"
    /\ UNCHANGED <<isTracking, calibrationMode, calibrationMatrix, calibrationState,
                   mountCamera, trackClosure, trackCamera, win, cursorControl, outputs, history, tracker, direct, report, projection>>

\* a variant of TrackingButtonEnabled that stays enabled while collecting
TrackingButtonAlwaysEnabled == webcamInitialized

\* the tracking button is enabled
TrackingButtonEnabled == webcamInitialized /\ calibrationMode # "collecting"

\* a variant of CalibrateButtonEnabled that stays enabled while collecting
CalibrateButtonAlwaysEnabled == webcamInitialized /\ ~isTracking

\* the calibrate button is enabled
CalibrateButtonEnabled == webcamInitialized /\ ~isTracking /\ calibrationMode # "collecting"

\* a variant of ToggleTracking that also clears the calibration matrix
ToggleTrackingClearsMatrix ==
    /\ TrackingButtonEnabled
    /\ isTracking' = ~isTracking
    /\ IF ~isTracking
       THEN /\ trackClosure' = Closure(TRUE, calibrationMode, <<>>, calibrationState)
            /\ trackCamera' = TRUE
       ELSE /\ trackCamera' = FALSE
            /\ UNCHANGED trackClosure
    /\ calibrationMatrix' = <<>>
    /\ lastOp' = "toggleTracking"
    /\ UNCHANGED <<webcamInitialized, calibrationMode, calibrationState, error,
                   mountStage, mountCamera, win, cursorControl, outputs, history, tracker, direct, report, projection>>

\* onClick of the tracking button, the render and the tracking effect that
\* follow: the effect registers the onResults of the new render and starts a
\* camera; its cleanup stops the camera
ToggleTracking ==
    /\ TrackingButtonEnabled
    /\ isTracking' = ~isTracking
    /\ IF ~isTracking
       THEN /\ trackClosure' = Closure(TRUE, calibrationMode, calibrationMatrix, calibrationState)
            /\ trackCamera' = TRUE
       ELSE /\ trackCamera' = FALSE
            /\ UNCHANGED trackClosure
    /\ lastOp' = "toggleTracking"
    /\ UNCHANGED <<webcamInitialized, calibrationMode, calibrationMatrix, calibrationState, error,
                   mountStage, mountCamera, win, cursorControl, outputs, history, tracker, direct, report, projection>>

\* a variant of startCalibration that keeps the recorded samples
startCalibrationKeepsSamples ==
    /\ calibrationMode' = "collecting"
    /\ calibrationMatrix' = <<>>
    /\ calibrationState' = [calibrationState EXCEPT !.currentPoint = 0]
    /\ target' = 0
    /\ modelWriter' = "startCalibration"
    /\ bufferWriter' = "startCalibration"
    /\ recorded' = 0
    /\ solverCalls' = 0
    /\ solverInput' = NoSolverInput

\* a variant of startCalibration that keeps the calibration matrix
startCalibrationKeepsMatrix ==
    /\ calibrationMode' = "collecting"
    /\ calibrationState' = [currentPoint |-> 0, eyePositions |-> <<>>, headPoses |-> <<>>]
    /\ target' = 0
    /\ bufferWriter' = "startCalibration"
    /\ recorded' = 0
    /\ UNCHANGED <<calibrationMatrix, modelWriter, solverCalls, solverInput>>

\* the body of startCalibration
startCalibration ==
    /\ calibrationMode' = "collecting"
    /\ calibrationMatrix' = <<>>
    /\ calibrationState' = [currentPoint |-> 0, eyePositions |-> <<>>, headPoses |-> <<>>]
    /\ target' = 0
    /\ modelWriter' = "startCalibration"
    /\ bufferWriter' = "startCalibration"
    /\ recorded' = 0
    /\ solverCalls' = 0
    /\ solverInput' = NoSolverInput

\* onClick of the calibrate button
StartCalibration ==
    /\ CalibrateButtonEnabled
    /\ startCalibration
    /\ lastOp' = "startCalibration"
    /\ UNCHANGED <<webcamInitialized, isTracking, error, handlers, win, cursorControl, drawn, posted, raw, lastPath, lastFrame, tracker, direct, report, projection>>

\* the closure c without its calibration matrix
Uncalibrated(c) == [c EXCEPT !.calibrationMatrix = <<>>]

\* the effects of an onResults that averages its point with the point drawn before
EffectsSmoothed(r) ==
    /\ drawn' = IF ~r.drew THEN drawn
                ELSE IF drawn = NoPoint THEN r.drawn
                ELSE Pt(JDiv(JAdd(drawn.x, r.drawn.x), 2 * SCALE), JDiv(JAdd(drawn.y, r.drawn.y), 2 * SCALE))
    /\ posted' = IF r.post THEN r.posted ELSE posted
    /\ lastPath' = r.path
    /\ lastOp' = "onResults"
    /\ UNCHANGED <<webcamInitialized, isTracking, error, handlers, win, cursorControl, tracker, direct, report, projection>>

\* the effects of an onResults that did r
Effects(r) ==
    /\ drawn' = IF r.drew THEN r.drawn ELSE drawn
    /\ posted' = IF r.post THEN r.posted ELSE posted
    /\ lastPath' = r.path
    /\ lastOp' = "onResults"
    /\ UNCHANGED <<webcamInitialized, isTracking, error, handlers, win, cursorControl, tracker, direct, report, projection>>

\* onResults run by a handler with closure c on a frame: every path through
\* the try/catch statement returns, so the statements after it never run
onResults(c, frame) ==
    /\ Effects(Handle(c, frame, win[1], win[2], cursorControl))
    /\ raw' = Handle(Uncalibrated(c), frame, win[1], win[2], cursorControl).drawn
    /\ lastFrame' = FrameName(frame)
    /\ UNCHANGED <<calibrationMode, calibrationMatrix, calibrationState, target, history>>

\* a frame reaches the handler registered by the mount effect
MountFrame ==
    /\ mountCamera
    /\ \E frame \in Frames : onResults(MountClosure, frame)

\* a frame reaches the handler registered by the tracking effect
TrackFrame ==
    /\ trackCamera
    /\ \E frame \in Frames : onResults(trackClosure, frame)

\* a variant of Resize that cancels the calibration session
ResizeCancelsSession ==
    /\ \E w \in WindowSizes : w # win /\ win' = w
    /\ calibrationMode' = "idle"
    /\ lastOp' = "resize"
    /\ UNCHANGED <<webcamInitialized, isTracking, calibrationMatrix, calibrationState, error,
                   handlers, cursorControl, outputs, history, tracker, direct, report, projection>>

\* the window is resized
Resize ==
    /\ \E w \in WindowSizes : w # win /\ win' = w
    /\ lastOp' = "resize"
    /\ UNCHANGED <<reactState, handlers, cursorControl, outputs, history, tracker, direct, report, projection>>

Next ==
    \/ WebcamGranted
    \/ WebcamDenied
    \/ ToggleTracking
    \/ StartCalibration
    \/ MountFrame
    \/ TrackFrame
    \/ Resize

Spec == Init /\ [][Next]_vars

\* the cameras keep delivering frames while they run
FairSpec == Spec /\ WF_vars(MountFrame) /\ WF_vars(TrackFrame)

(***************************************************************************)
(* The statements of onResults after its try/catch statement, run on their *)
(* own.  No path of onResults reaches them; BlockSpec runs the collection  *)
(* block as the handler of the current render would, to settle what the    *)
(* block itself does with the samples and what the solver's result does to *)
(* the frames transformed with it.                                         *)
(***************************************************************************)
BlockInit ==
    /\ webcamInitialized = TRUE
    /\ isTracking = FALSE
    /\ calibrationMode = "idle"
    /\ calibrationMatrix = <<>>
    /\ calibrationState = InitialCalibrationState
    /\ error = FALSE
    /\ mountStage = "done"
    /\ mountCamera = FALSE
    /\ trackClosure = MountClosure
    /\ trackCamera = FALSE
    /\ win \in WindowSizes
    /\ cursorControl \in BOOLEAN
    /\ drawn = NoPoint
    /\ posted = NoPoint
    /\ raw = NoPoint
    /\ target = 0 - 1
    /\ lastOp = "init"
    /\ lastPath = "none"
    /\ lastFrame = "none"
    /\ modelWriter = "none"
    /\ bufferWriter = "none"
    /\ recorded = 0
    /\ solverCalls = 0
    /\ solverInput = NoSolverInput
    /\ tjsScreen = <<0, 0>>
    /\ tjsGazePoint = NoPoint
    /\ DirectInit
    /\ ReportUnmounted
    /\ ProjectionIdle

\* what a handler registered in the current render reads
CurrentClosure == Closure(isTracking, calibrationMode, calibrationMatrix, calibrationState)

\* the frames of one target are alike: the user holds the gaze on the target
SteadyGaze(smp) ==
    IF calibrationState.eyePositions = <<>>
    THEN TRUE
    ELSE calibrationState.eyePositions[Len(calibrationState.eyePositions)] = smp.eye

\* the statements after the try/catch statement on a frame whose sample is smp
CollectSample(frame, smp) ==
    /\ smp.ok
    /\ SteadyGaze(smp)
    /\ CollectionBlock(CurrentClosure, smp)
    /\ drawn' = smp.screen
    /\ raw' = smp.screen
    /\ lastPath' = "collect"
    /\ lastFrame' = FrameName(frame)
    /\ lastOp' = "onResults"
    /\ UNCHANGED <<webcamInitialized, isTracking, error, handlers, win, cursorControl, posted, tracker, direct, report, projection>>

\* a frame reaches the collection block
BlockCollect ==
    /\ calibrationMode = "collecting"
    /\ \E frame \in CollectFrames : CollectSample(frame, Sample(frame.face, win[1], win[2], calibrationMatrix))

\* the frames a tracking handler transforms with the installed matrix
BlockTrackFrames == {F3DLow, F2D, NoFace}

\* a frame reaches a tracking handler of the current render
BlockTrackFrame ==
    /\ isTracking
    /\ \E frame \in BlockTrackFrames : onResults(CurrentClosure, frame)

BlockNext ==
    \/ StartCalibration
    \/ ToggleTracking
    \/ BlockCollect
    \/ BlockTrackFrame

BlockSpec == BlockInit /\ [][BlockNext]_vars

(***************************************************************************)
(* build/static/tracking.js: the page script that moves the gaze point     *)
(* indicator.  TrackerSpec runs its onResults and its resize listener.     *)
(***************************************************************************)
\* Math.sqrt of the sum of the squared differences of the two eye corners
EyeWidth(inner, outer) == VMag(VSub(outer, inner))

\* the iris position relative to the eye centre, over the eye width
IrisOffset(iris, inner, outer) == VScaleDown(VSub(iris, VMid(inner, outer)), EyeWidth(inner, outer))

\* the offset over its magnitude, x inverted
InvertedUnit(offset, magnitude) ==
    P3(JNeg(JDiv(offset.x, magnitude)), JDiv(offset.y, magnitude), JDiv(offset.z, magnitude))

calculateEyeGazeVector(iris, inner, outer) ==
    InvertedUnit(IrisOffset(iris, inner, outer), VMag(IrisOffset(iris, inner, outer)))

gazeScalingFactor == 2 * SCALE

\* the mean of the two gaze vectors, x and y scaled
AvgGazeVector(l, r) ==
    P3(JMul(JDiv(JAdd(l.x, r.x), 2 * SCALE), gazeScalingFactor),
       JMul(JDiv(JAdd(l.y, r.y), 2 * SCALE), gazeScalingFactor),
       JDiv(JAdd(l.z, r.z), 2 * SCALE))

\* the intersection with the plane z = 0, in screen coordinates
IntersectionOnScreen(eyeMidpoint, avgGazeVector, t, screenWidth, screenHeight) ==
    Pt(JMul(JAdd(eyeMidpoint.x, JMul(avgGazeVector.x, t)), screenWidth * SCALE),
       JMul(JAdd(eyeMidpoint.y, JMul(avgGazeVector.y, t)), screenHeight * SCALE))

\* the projection of the gaze from the midpoint of the irises
ProjectFromMidpoint(eyeMidpoint, avgGazeVector, screenWidth, screenHeight) ==
    IntersectionOnScreen(eyeMidpoint, avgGazeVector, JDiv(JNeg(eyeMidpoint.z), avgGazeVector.z),
                         screenWidth, screenHeight)

calculateGazeIntersection(landmarks, screenWidth, screenHeight) ==
    ProjectFromMidpoint(VMid(At(landmarks, 468), At(landmarks, 473)),
                        AvgGazeVector(calculateEyeGazeVector(At(landmarks, 468), At(landmarks, 133), At(landmarks, 33)),
                                      calculateEyeGazeVector(At(landmarks, 473), At(landmarks, 362), At(landmarks, 263))),
                        screenWidth, screenHeight)

\* the corners of both eyes a tenth to each side of (cx, cy)
EyeCorners(cx, cy) ==
    (33 :> P3(cx - Dec(1, 10), cy, 0)) @@ (133 :> P3(cx + Dec(1, 10), cy, 0)) @@
    (362 :> P3(cx - Dec(1, 10), cy, 0)) @@ (263 :> P3(cx + Dec(1, 10), cy, 0))

\* a face whose eyes are centred at (cx, cy) and whose irises are off the
\* centre by (dx, dy), at depth z
TrackerFace(cx, cy, dx, dy, z) == MkFace(478, EyeCorners(cx, cy) @@ Irises(cx + dx, cy + dy, z))

EyeCentres == {Dec(1, 10), Dec(5, 10), Dec(9, 10)}

IrisShifts == {0 - Dec(5, 100), 0, Dec(5, 100)}

IrisDepths == {0 - Dec(1, 10), 0}

TrackerFaces ==
    {TrackerFace(cx, cy, dx, dy, z) : cx \in EyeCentres, cy \in {Dec(5, 10), Dec(9, 10)},
                                      dx \in IrisShifts, dy \in {0, Dec(5, 100)}, z \in IrisDepths}

TrackerInit ==
    /\ webcamInitialized = FALSE
    /\ isTracking = FALSE
    /\ calibrationMode = "idle"
    /\ calibrationMatrix = <<>>
    /\ calibrationState = InitialCalibrationState
    /\ error = FALSE
    /\ mountStage = "pending"
    /\ mountCamera = FALSE
    /\ trackClosure = MountClosure
    /\ trackCamera = FALSE
    /\ win \in WindowSizes
    /\ cursorControl = FALSE
    /\ drawn = NoPoint
    /\ posted = NoPoint
    /\ raw = NoPoint
    /\ target = 0 - 1
    /\ lastOp = "init"
    /\ lastPath = "none"
    /\ lastFrame = "none"
    /\ modelWriter = "none"
    /\ bufferWriter = "none"
    /\ recorded = 0
    /\ solverCalls = 0
    /\ solverInput = NoSolverInput
    /\ tjsScreen = win
    /\ tjsGazePoint = NoPoint
    /\ DirectInit
    /\ ReportUnmounted
    /\ ProjectionIdle

\* onResults of tracking.js on a frame with one face: updateGazePointPosition
\* is given the intersection
TrackerFaceFrame ==
    /\ \E landmarks \in TrackerFaces :
          tjsGazePoint' = calculateGazeIntersection(landmarks, tjsScreen[1], tjsScreen[2])
    /\ lastOp' = "trackerOnResults"
    /\ UNCHANGED <<reactState, handlers, win, cursorControl, outputs, history, tjsScreen, direct, report, projection>>

\* onResults of tracking.js on a frame without a face: the indicator stays
TrackerEmptyFrame ==
    /\ lastOp' = "trackerNoFace"
    /\ UNCHANGED <<reactState, handlers, win, cursorControl, outputs, history, tracker, direct, report, projection>>

\* the resize listener
TrackerResize ==
    /\ \E w \in WindowSizes : w # win /\ win' = w /\ tjsScreen' = w
    /\ lastOp' = "trackerResize"
    /\ UNCHANGED <<reactState, handlers, cursorControl, outputs, history, tjsGazePoint, direct, report, projection>>

TrackerNext ==
    \/ TrackerFaceFrame
    \/ TrackerEmptyFrame
    \/ TrackerResize

TrackerSpec == TrackerInit /\ [][TrackerNext]_vars

(***************************************************************************)
(* Math.acos, Math.atan2, Math.cos and Math.sin on fixed-point operands.   *)
(* The finite values are polynomial approximations, good to a few units;   *)
(* the NaN cases are those of the language.                                *)
(***************************************************************************)
PI == Dec(31416, 10000)

HALF_PI == Dec(15708, 10000)

\* Math.acos(x) for 0 <= x <= 1: sqrt(1 - x) * (1.5707 - 0.2121 x + 0.0743 x^2 - 0.0187 x^3)
AcosUnit(x) ==
    MulFix(JSqrt(SCALE - x),
           Dec(15707, 10000) - MulFix(Dec(2121, 10000), x) + MulFix(Dec(743, 10000), MulFix(x, x))
               - MulFix(Dec(187, 10000), MulFix(x, MulFix(x, x))))

\* Math.acos(r): NaN outside [-1, 1]
JAcos(r) ==
    IF ~IsFin(r) THEN NaN
    ELSE IF r > SCALE \/ r < 0 - SCALE THEN NaN
    ELSE IF r >= 0 THEN AcosUnit(r)
    ELSE PI - AcosUnit(0 - r)

\* Math.atan(z) for |z| <= 1: z * (pi/4 + 0.273 * (1 - |z|))
AtanUnit(z) == MulFix(z, Dec(7854, 10000) + MulFix(Dec(273, 1000), SCALE - AbsI(z)))

\* Math.atan(y / x) for finite y and x # 0
AtanRatio(y, x) ==
    IF AbsI(y) <= AbsI(x) THEN AtanUnit(DivFix(y, x))
    ELSE SignI(y) * SignI(x) * HALF_PI - AtanUnit(DivFix(x, y))

\* Math.atan2(y, x) for finite operands
Atan2Finite(y, x) ==
    IF x > 0 THEN AtanRatio(y, x)
    ELSE IF x < 0 THEN (IF y >= 0 THEN AtanRatio(y, x) + PI ELSE AtanRatio(y, x) - PI)
    ELSE IF y > 0 THEN HALF_PI
    ELSE IF y < 0 THEN 0 - HALF_PI
    ELSE 0

\* Math.atan2(y, x); an infinite operand is given its limit
JAtan2(y, x) ==
    IF IsNaNish(y) \/ IsNaNish(x) THEN NaN
    ELSE IF IsFin(y) /\ IsFin(x) THEN Atan2Finite(y, x)
    ELSE Atan2Finite(SignJ(y) * (IF IsFin(y) THEN 0 ELSE 1), SignJ(x) * (IF IsFin(x) THEN 0 ELSE 1))

\* Math.sin(x) for 0 <= x <= pi: 16 x (pi - x) / (5 pi^2 - 4 x (pi - x))
SinHalfTurn(x) ==
    DivFix(16 * MulFix(x, PI - x), 5 * MulFix(PI, PI) - 4 * MulFix(x, PI - x))

\* x brought into [-pi, pi] by whole turns
WrapAngle(x) == ((x + PI) % (2 * PI)) - PI

\* Math.sin(x) for -pi <= x <= pi
SinWrapped(x) == IF x >= 0 THEN SinHalfTurn(x) ELSE 0 - SinHalfTurn(0 - x)

\* Math.sin(x)
JSin(x) == IF ~IsFin(x) THEN NaN ELSE SinWrapped(WrapAngle(x))

\* Math.cos(x)
JCos(x) == IF ~IsFin(x) THEN NaN ELSE SinWrapped(WrapAngle(x + HALF_PI))

(***************************************************************************)
(* The direct tracker: the component that maps the gaze point to the       *)
(* window without calibration.                                             *)
(***************************************************************************)
\* v / |v|, whatever |v| is
normalizeVector(v) == VScaleDown(v, VMag(v))

RotateZ(v, r) ==
    P3(JSub(JMul(v.x, JCos(r)), JMul(v.y, JSin(r))), JAdd(JMul(v.x, JSin(r)), JMul(v.y, JCos(r))), v.z)

RotateY(v, r) ==
    P3(JAdd(JMul(v.x, JCos(r)), JMul(v.z, JSin(r))), v.y, JAdd(JMul(JNeg(v.x), JSin(r)), JMul(v.z, JCos(r))))

RotateX(v, r) ==
    P3(v.x, JSub(JMul(v.y, JCos(r)), JMul(v.z, JSin(r))), JAdd(JMul(v.y, JSin(r)), JMul(v.z, JCos(r))))

\* rotation matrices in order: Z, Y, X
rotateVector(v, rotation) == RotateX(RotateY(RotateZ(v, rotation.z), rotation.y), rotation.x)

leftEye == [center |-> 33, irisCenter |-> 468, irisLeft |-> 469, irisRight |-> 471, irisTop |-> 470, irisBottom |-> 472]

rightEye == [center |-> 263, irisCenter |-> 473, irisLeft |-> 474, irisRight |-> 476, irisTop |-> 475, irisBottom |-> 477]

\* the landmarks of one eye
EyeOf(landmarks, idx) == [k \in DOMAIN idx |-> At(landmarks, idx[k])]

\* Math.sqrt(Math.pow(a.x - b.x, 2) + Math.pow(a.y - b.y, 2) + Math.pow(a.z - b.z, 2))
IrisExtent(a, b) == VMag(VSub(a, b))

irisWidthX(eye) == IrisExtent(eye.irisRight, eye.irisLeft)

irisHeightY(eye) == IrisExtent(eye.irisTop, eye.irisBottom)

calculateEyeRotation(eye) ==
    P3(JAcos(JDiv(irisHeightY(eye), irisWidthX(eye))),
       JAtan2(JSub(eye.irisCenter.z, eye.center.z), JSub(eye.irisCenter.x, eye.center.x)),
       JAtan2(JSub(eye.irisCenter.y, eye.center.y), JSub(eye.irisCenter.x, eye.center.x)))

\* normalizeVector(rightEar - leftEar)
faceNormal(landmarks) == normalizeVector(VSub(At(landmarks, 454), At(landmarks, 234)))

\* normalizeVector(foreHead - chin)
upVector(landmarks) == normalizeVector(VSub(At(landmarks, 10), At(landmarks, 152)))

PoseOfBasis(n, up, right) ==
    [pitch |-> JAtan2(JNeg(n.y), JSqrt(JAdd(JMul(n.x, n.x), JMul(n.z, n.z)))),
     yaw |-> JAtan2(JNeg(n.x), n.z),
     roll |-> JAtan2(right.y, up.y)]

headPose(landmarks) ==
    PoseOfBasis(faceNormal(landmarks), upVector(landmarks), VCross(upVector(landmarks), faceNormal(landmarks)))

\* the rotated gaze vector of one eye
RotatedGaze(eye) ==
    rotateVector(normalizeVector(VSub(eye.irisCenter, eye.center)), calculateEyeRotation(eye))

\* the landmarks whose fields calculateGazePoint reads
GAZE_POINT_IDX == {33, 263, 10, 152, 234, 454} \cup (468..477)

\* reading a field of an undefined landmark raises a TypeError
GazePointThrows(landmarks) == \E i \in GAZE_POINT_IDX : ~Has(landmarks, i)

\* the rotated gaze vectors and the head pose, combined
CombineGaze(l, r, pose) ==
    P3(JAdd(JDiv(JAdd(l.x, r.x), 2 * SCALE), JMul(pose.yaw, Dec(5, 10))),
       JAdd(JDiv(JAdd(l.y, r.y), 2 * SCALE), JMul(pose.pitch, Dec(5, 10))),
       JDiv(JAdd(l.z, r.z), 2 * SCALE))

calculateGazePoint(landmarks) ==
    CombineGaze(RotatedGaze(EyeOf(landmarks, leftEye)), RotatedGaze(EyeOf(landmarks, rightEye)), headPose(landmarks))

\* [-1, 1] to [0, width] and [0, height]
screenPoint(g, W, H) ==
    Pt(JDiv(JMul(JAdd(g.x, SCALE), W * SCALE), 2 * SCALE),
       JDiv(JMul(JAdd(g.y, SCALE), H * SCALE), 2 * SCALE))

\* the iris of the eye centred at c: its centre shifted by d, its horizontal
\* half extent hw and its vertical half extent hh
IrisAround(first, c, d, hw, hh) ==
    (first :> P3(c.x + d.x, c.y + d.y, c.z + d.z))
    @@ (first + 1 :> P3(c.x + d.x - hw, c.y + d.y, c.z + d.z))
    @@ (first + 2 :> P3(c.x + d.x, c.y + d.y - hh, c.z + d.z))
    @@ (first + 3 :> P3(c.x + d.x + hw, c.y + d.y, c.z + d.z))
    @@ (first + 4 :> P3(c.x + d.x, c.y + d.y + hh, c.z + d.z))

LeftCentre == P3(Dec(4, 10), Dec(5, 10), 0)

RightCentre == P3(Dec(6, 10), Dec(5, 10), 0)

\* ears to the left and right of the face, forehead above the chin
HeadUpright ==
    (234 :> P3(Dec(3, 10), Dec(5, 10), 0)) @@ (454 :> P3(Dec(7, 10), Dec(5, 10), 0))
    @@ (10 :> P3(Dec(5, 10), Dec(2, 10), 0)) @@ (152 :> P3(Dec(5, 10), Dec(8, 10), 0))

\* both ears reported at the same point
HeadEarsCoincide ==
    (234 :> P3(Dec(5, 10), Dec(5, 10), 0)) @@ (454 :> P3(Dec(5, 10), Dec(5, 10), 0))
    @@ (10 :> P3(Dec(5, 10), Dec(2, 10), 0)) @@ (152 :> P3(Dec(5, 10), Dec(8, 10), 0))

IrisShiftsDirect == {P3(0, 0, 0), P3(Dec(1, 10), 0, 0 - Dec(1, 10)), P3(Dec(1, 10), Dec(1, 10), 0)}

IrisHalfWidths == {0, Dec(1, 10)}

IrisHalfHeights == {0, Dec(5, 100), Dec(2, 10)}

\* the parameters of the faces given to the direct tracker: refined faces of
\* 478 landmarks, one of them with coinciding ears, and one face of the 468
\* landmarks of the unrefined mesh
DirectParams ==
    [d : IrisShiftsDirect, hw : IrisHalfWidths, hh : IrisHalfHeights, upright : {TRUE}, n : {478}]
    \cup [d : {P3(Dec(1, 10), Dec(1, 10), 0)}, hw : {Dec(1, 10)}, hh : {Dec(5, 100)}, upright : {FALSE}, n : {478}]
    \cup [d : {P3(0, 0, 0)}, hw : {0}, hh : {0}, upright : {TRUE}, n : {468}]

DirectFace(p) ==
    MkFace(p.n,
           (33 :> LeftCentre) @@ (263 :> RightCentre)
           @@ IrisAround(468, LeftCentre, p.d, p.hw, p.hh)
           @@ IrisAround(473, RightCentre, p.d, p.hw, p.hh)
           @@ (IF p.upright THEN HeadUpright ELSE HeadEarsCoincide))

\* updateCursor(screenPoint) after calculateGazePoint(landmarks)
DirectGaze(landmarks) ==
    /\ eyeRotations' = <<calculateEyeRotation(EyeOf(landmarks, leftEye)), calculateEyeRotation(EyeOf(landmarks, rightEye))>>
    /\ debugValues' = [headPose |-> headPose(landmarks),
                       leftGaze |-> RotatedGaze(EyeOf(landmarks, leftEye)),
                       rightGaze |-> RotatedGaze(EyeOf(landmarks, rightEye))]
    /\ cursor' = screenPoint(calculateGazePoint(landmarks), win[1], win[2])
    /\ callback' = "returned"

\* faceMesh.onResults of the direct tracker, given a face
DirectFaceFrame ==
    /\ \E p \in DirectParams :
          /\ lastFrame' = p
          /\ IF GazePointThrows(DirectFace(p))
             THEN callback' = "threw" /\ UNCHANGED <<debugValues, cursor, eyeRotations>>
             ELSE DirectGaze(DirectFace(p))
    /\ lastOp' = "directOnResults"
    /\ UNCHANGED <<reactState, handlers, win, cursorControl, drawn, posted, raw, target, lastPath, history, tracker, report, projection>>

\* faceMesh.onResults of the direct tracker, given no face
DirectEmptyFrame ==
    /\ callback' = "returned"
    /\ lastOp' = "directNoFace"
    /\ UNCHANGED <<reactState, handlers, win, cursorControl, outputs, history, tracker, debugValues, cursor, eyeRotations, report, projection>>

\* the window changes size
DirectResize ==
    /\ \E w \in WindowSizes : w # win /\ win' = w
    /\ lastOp' = "directResize"
    /\ UNCHANGED <<reactState, handlers, cursorControl, outputs, history, tracker, direct, report, projection>>

DirectNext ==
    \/ DirectFaceFrame
    \/ DirectEmptyFrame
    \/ DirectResize

DirectSpec == Init /\ [][DirectNext]_vars

(***************************************************************************)
(* calculateCalibrationMatrix on its own: the arguments are drawn from the *)
(* sample sets below and the solver is applied to them.                    *)
(***************************************************************************)
RECURSIVE Repeat(_, _)
\* k copies of x
Repeat(x, k) == IF k = 0 THEN <<>> ELSE Append(Repeat(x, k - 1), x)

MaxRepeat == 4

SolverPoints == {P3(Dec(5, 10), Dec(5, 10), 0), P3(SCALE, 2 * SCALE, 0 - Dec(5, 10)), P3(0, 0, 0), P3(2 * SCALE, SCALE, SCALE)}

SolverPoses == {P3(0, 0, SCALE), P3(SCALE, 0, 0)}

\* the empty set, one sample, and one sample repeated
RepeatedSamples ==
    {[eyePositions |-> Repeat(p, k),
      screenPositions |-> Repeat(CalibrationPoint(0), k),
      headPoses |-> Repeat(h, k)] : p \in SolverPoints, k \in 0..MaxRepeat, h \in SolverPoses}

\* distinct samples on one line through the origin, given without head poses
CollinearSamples ==
    {[eyePositions |-> <<P3(SCALE, 2 * SCALE, 0), P3(2 * SCALE, 4 * SCALE, 0), P3(0 - SCALE, 0 - 2 * SCALE, 0)>>,
      screenPositions |-> <<CalibrationPoint(0), CalibrationPoint(4), CalibrationPoint(8)>>,
      headPoses |-> <<>>]}

GridAxes == {<<0 - SCALE, 0, SCALE>>, <<0, SCALE, 2 * SCALE>>, <<SCALE, 2 * SCALE, 3 * SCALE>>, <<0 - 2 * SCALE, 0, 2 * SCALE>>}

GridDepths == {0, Dec(5, 10)}

\* the exact linear target of a gaze: 2 * gaze + 3 on each coordinate
LinearTarget(g) == Pt(2 * g.x + 3 * SCALE, 2 * g.y + 3 * SCALE)

\* the k-th point of the 3 x 3 grid over the axes xs and ys, at depth z
GridGaze(xs, ys, z, k) == P3(xs[((k - 1) % 3) + 1], ys[((k - 1) \div 3) + 1], z)

\* 9 noise-free samples over a grid of gazes, the head facing the screen
GridSamples ==
    {[eyePositions |-> [k \in 1..9 |-> GridGaze(xs, ys, z, k)],
      screenPositions |-> [k \in 1..9 |-> LinearTarget(GridGaze(xs, ys, z, k))],
      headPoses |-> Repeat(P3(0, 0, SCALE), 9)] : xs \in GridAxes, ys \in GridAxes, z \in GridDepths}

SolverInputs == RepeatedSamples \cup CollinearSamples \cup GridSamples

SolverInit ==
    /\ webcamInitialized = TRUE
    /\ isTracking = FALSE
    /\ calibrationMode = "idle"
    /\ calibrationMatrix = <<>>
    /\ calibrationState = InitialCalibrationState
    /\ error = FALSE
    /\ mountStage = "started"
    /\ mountCamera = TRUE
    /\ trackClosure = MountClosure
    /\ trackCamera = FALSE
    /\ win = <<100, 100>>
    /\ cursorControl = FALSE
    /\ drawn = NoPoint
    /\ posted = NoPoint
    /\ target = 0 - 1
    /\ lastOp = "init"
    /\ lastPath = "none"
    /\ lastFrame = "none"
    /\ modelWriter = "none"
    /\ bufferWriter = "none"
    /\ recorded = 0
    /\ solverCalls = 0
    /\ solverInput \in SolverInputs
    /\ raw = NoPoint
    /\ tjsScreen = <<0, 0>>
    /\ tjsGazePoint = NoPoint
    /\ DirectInit
    /\ ReportUnmounted
    /\ ProjectionIdle

\* calculateCalibrationMatrix(eyePositions, screenPositions, headPoses)
Solve ==
    /\ solverCalls = 0
    /\ calibrationMatrix' = calculateCalibrationMatrix(solverInput.eyePositions, solverInput.screenPositions, solverInput.headPoses)
    /\ solverCalls' = 1
    /\ lastOp' = "solve"
    /\ UNCHANGED <<webcamInitialized, isTracking, calibrationMode, calibrationState, error, handlers, win,
                   cursorControl, outputs, modelWriter, bufferWriter, recorded, solverInput, tracker, direct, report, projection>>

SolverNext == Solve

SolverSpec == SolverInit /\ [][SolverNext]_vars

(***************************************************************************)
(* adjustGazeForHeadPose on its own: the arguments are drawn from the sets *)
(* below and the function is applied to them, then to its own result.      *)
(***************************************************************************)

\* the App before the webcam is asked for, everything else untouched
AppIdle ==
    /\ webcamInitialized = FALSE
    /\ isTracking = FALSE
    /\ calibrationMode = "idle"
    /\ calibrationMatrix = <<>>
    /\ calibrationState = InitialCalibrationState
    /\ error = FALSE
    /\ mountStage = "pending"
    /\ mountCamera = FALSE
    /\ trackClosure = MountClosure
    /\ trackCamera = FALSE
    /\ win = <<100, 100>>
    /\ cursorControl = FALSE
    /\ drawn = NoPoint
    /\ posted = NoPoint
    /\ target = 0 - 1
    /\ lastOp = "init"
    /\ lastPath = "none"
    /\ lastFrame = "none"
    /\ modelWriter = "none"
    /\ bufferWriter = "none"
    /\ recorded = 0
    /\ solverCalls = 0
    /\ solverInput = NoSolverInput
    /\ raw = NoPoint
    /\ tjsScreen = <<0, 0>>
    /\ tjsGazePoint = NoPoint
    /\ DirectInit

\* gaze components: multiples of one half between -1 and 1
GazeComponents == {0 - SCALE, 0 - (SCALE \div 2), 0, SCALE \div 2, SCALE}

GazeVectors == {P3(x, y, z) : x, y, z \in GazeComponents}

\* head poses of length one: the axes and directions with components 0.6 and 0.8
UnitHeadPoses ==
    {P3(SCALE, 0, 0), P3(0, 0 - SCALE, 0), P3(0, 0, SCALE),
     P3(600, 800, 0), P3(0, 0 - 600, 800), P3(800, 0, 0 - 600)}

\* head poses of other lengths
OtherHeadPoses == {P3(0, 0, SCALE \div 2), P3(SCALE, SCALE, 0), P3(0, 0, 0)}

HeadPoses == UnitHeadPoses \cup OtherHeadPoses

IsUnit(pose) == VDot(pose, pose) = SCALE

AdjustInit ==
    /\ AppIdle
    /\ ReportUnmounted
    /\ adjustArgs \in [vector : GazeVectors, headPose : HeadPoses]
    /\ adjusted = <<>>

\* adjustGazeForHeadPose(vector, headPose), and the same call on what it returned
Adjust ==
    /\ adjusted = <<>>
    /\ adjusted' = <<adjustGazeForHeadPose(adjustArgs.vector, adjustArgs.headPose),
                     adjustGazeForHeadPose(adjustGazeForHeadPose(adjustArgs.vector, adjustArgs.headPose),
                                           adjustArgs.headPose)>>
    /\ lastOp' = "adjustGazeForHeadPose"
    /\ UNCHANGED <<webcamInitialized, isTracking, calibrationMode, calibrationMatrix, calibrationState, error,
                   handlers, win, cursorControl, outputs, history, tracker, direct, report, adjustArgs>>

AdjustNext == Adjust

AdjustSpec == AdjustInit /\ [][AdjustNext]_vars

(***************************************************************************)
(* ReportDialog: the title and content fields, the effect that saves them  *)
(* a second after the last change, and the Save button.                    *)
(***************************************************************************)

\* what the fields can hold
Texts == {"", "a", "b"}

\* what the report given to the dialog can hold (no report: empty fields)
ReportTexts == {"", "a"}

\* the delay given to setTimeout, in milliseconds
AutosaveDelay == 1000

\* how far one step of the clock advances, in milliseconds
TickStep == 500

\* the timeout started by a render with title t and content c
Timer(t, c) == [title |-> t, content |-> c, elapsed |-> 0]

\* the cleanup of the effect of the render with title t and content c: clearTimeout(saveTimeout)
Cleanup(ts, t, c) == {x \in ts : ~(x.title = t /\ x.content = c)}

\* a variant whose effect returns no cleanup
AutosaveEffectKeepsTimers(ts, told, cold, t, c) == ts \cup {Timer(t, c)}

\* the effect over [title, content, onSave]: the cleanup of the render
\* before (told, cold), then the timeout of this render (t, c)
AutosaveEffect(ts, told, cold, t, c) == Cleanup(ts, told, cold) \cup {Timer(t, c)}

ReportRest ==
    UNCHANGED <<webcamInitialized, isTracking, calibrationMode, calibrationMatrix, calibrationState, error,
                handlers, win, cursorControl, outputs, history, tracker, direct, projection>>

\* the dialog after its first render: the fields hold the report and the effect has run
ReportInit ==
    /\ AppIdle
    /\ ProjectionIdle
    /\ title \in ReportTexts
    /\ content \in ReportTexts
    /\ timers = {Timer(title, content)}
    /\ lastSave = NoSave
    /\ sinceChange = 0

\* the title field changes: setTitle, render, effect
SetTitle ==
    /\ \E v \in Texts \ {title} :
          /\ title' = v
          /\ timers' = AutosaveEffect(timers, title, content, v, content)
    /\ sinceChange' = 0
    /\ lastOp' = "setTitle"
    /\ UNCHANGED <<content, lastSave>>
    /\ ReportRest

\* the content field changes: setContent, render, effect
SetContent ==
    /\ \E v \in Texts \ {content} :
          /\ content' = v
          /\ timers' = AutosaveEffect(timers, title, content, title, v)
    /\ sinceChange' = 0
    /\ lastOp' = "setContent"
    /\ UNCHANGED <<title, lastSave>>
    /\ ReportRest

\* the parent renders the dialog with another onSave: the effect runs again
OnSaveChanged ==
    /\ timers' = AutosaveEffect(timers, title, content, title, content)
    /\ timers' # timers
    /\ lastOp' = "onSaveChanged"
    /\ UNCHANGED <<title, content, lastSave, sinceChange>>
    /\ ReportRest

Later(ms) == IF ms + TickStep > AutosaveDelay THEN AutosaveDelay ELSE ms + TickStep

\* time passes while no timeout is due
Tick ==
    /\ \A x \in timers : x.elapsed < AutosaveDelay
    /\ timers # {} \/ sinceChange < AutosaveDelay
    /\ timers' = {[x EXCEPT !.elapsed = Later(x.elapsed)] : x \in timers}
    /\ sinceChange' = Later(sinceChange)
    /\ lastOp' = "tick"
    /\ UNCHANGED <<title, content, lastSave>>
    /\ ReportRest

\* a timeout is due: its callback runs with the title and content it captured
TimerFires ==
    /\ \E x \in timers :
          /\ x.elapsed >= AutosaveDelay
          /\ timers' = timers \ {x}
          /\ IF x.title # "" \/ x.content # ""
             THEN /\ lastSave' = [kind |-> "autosave", title |-> x.title, content |-> x.content]
                  /\ lastOp' = "autosave"
             ELSE /\ lastOp' = "timerFired"
                  /\ UNCHANGED lastSave
    /\ UNCHANGED <<title, content, sinceChange>>
    /\ ReportRest

\* the Save button
handleSave ==
    /\ lastSave' = [kind |-> "manual", title |-> title, content |-> content]
    /\ lastOp' = "handleSave"
    /\ UNCHANGED <<title, content, timers, sinceChange>>
    /\ ReportRest

ReportNext == SetTitle \/ SetContent \/ OnSaveChanged \/ Tick \/ TimerFires \/ handleSave

ReportSpec == ReportInit /\ [][ReportNext]_vars

(***************************************************************************)
(* The claims.                                                             *)
(***************************************************************************)
\* the names of the frames that carry a face
FaceFrameNames == {f.name : f \in {g \in Frames \cup CollectFrames : g.kind = "face"}}

\* the last step was an onResults on a frame with a face
FaceFrameDelivered == lastOp = "onResults" /\ lastFrame \in FaceFrameNames

\* the paths of onResults that hand a gaze point to the canvas
DrawPaths == {"2d", "3d", "catch_2d", "collect"}

currentPoint == calibrationState.currentPoint

\* C1: after startCalibration, if frames with a face keep being delivered,
\* the session eventually reaches Complete, the solver has been called and
\* its result is the calibration matrix
C1_SessionCompletes ==
    ([]<>FaceFrameDelivered) =>
        ((calibrationMode = "collecting") ~>
            (calibrationMode = "complete" /\ solverCalls > 0 /\ calibrationMatrix # <<>>))

\* Idle -> Collecting(0), Collecting(i) -> Collecting(i+1) for i in 0..7,
\* Collecting(8) -> Complete
AllowedTransition ==
    \/ /\ calibrationMode = "idle"
       /\ lastOp' = "startCalibration"
       /\ calibrationMode' = "collecting"
       /\ currentPoint' = 0
    \/ /\ calibrationMode = "collecting"
       /\ calibrationMode' = "collecting"
       /\ currentPoint \in 0 .. (LastPoint - 1)
       /\ currentPoint' = currentPoint + 1
    \/ /\ calibrationMode = "collecting"
       /\ currentPoint = LastPoint
       /\ calibrationMode' = "complete"
       /\ currentPoint' = currentPoint

C3_StartResets ==
    lastOp = "startCalibration" =>
        /\ calibrationMode = "collecting"
        /\ currentPoint = 0
        /\ calibrationState.eyePositions = <<>>
        /\ calibrationState.headPoses = <<>>

\* a start command right after the collection block completed a session
C3_Witness == lastOp = "startCalibration" /\ lastPath = "collect"

\* C4: while Collecting, every onResults on a frame with a face records
\* exactly one sample
C4_FaceFrameAppendsSample ==
    [][(calibrationMode = "collecting" /\ lastOp' = "onResults" /\ lastFrame' \in FaceFrameNames)
        => recorded' = recorded + 1]_vars

\* the i-th point of the grid {0.1, 0.5, 0.9} x {0.1, 0.5, 0.9}, x fastest
GridPoint(i) ==
    [x |-> <<Dec(1, 10), Dec(5, 10), Dec(9, 10)>>[(i % 3) + 1],
     y |-> <<Dec(1, 10), Dec(5, 10), Dec(9, 10)>>[(i \div 3) + 1]]

SolverTargets == {solverInput.screenPositions[k] : k \in DOMAIN solverInput.screenPositions}

\* C6: when the session completes, the solver has been given the samples of
\* all nine targets, and every recorded sample is among those consumed
C6_SolverReceivesAllSamples ==
    calibrationMode = "complete" =>
        /\ solverCalls = 1
        /\ SolverTargets = {CalibrationPoint(i) : i \in 0 .. LastPoint}
        /\ Len(calibrationState.eyePositions) = recorded

\* two rows of three entries
WholeMatrix(m) == Len(m) = 2 /\ \A r \in 1 .. 2 : Len(m[r]) = 3

\* C7: the calibration matrix, and the one a registered handler reads, is
\* empty or the whole result of the one solver call
C7_MatrixEmptyOrWhole ==
    /\ calibrationMatrix = <<>> \/ WholeMatrix(calibrationMatrix)
    /\ trackClosure.calibrationMatrix = <<>> \/ WholeMatrix(trackClosure.calibrationMatrix)
    /\ calibrationMatrix # <<>> =>
          /\ solverCalls = 1
          /\ calibrationMatrix = calculateCalibrationMatrix(solverInput.eyePositions,
                                                            solverInput.screenPositions,
                                                            solverInput.headPoses)

\* a frame was transformed with an installed matrix
C7_Witness == calibrationMatrix # <<>> /\ lastOp = "onResults" /\ lastPath = "3d"

\* a step writes the sample buffer or the calibration matrix
WritesCalibration ==
    \/ calibrationMatrix' # calibrationMatrix
    \/ calibrationState' # calibrationState
    \/ modelWriter' # modelWriter
    \/ bufferWriter' # bufferWriter

\* C8: the sample buffer and the calibration matrix are written by
\* onResults only
C8_OnlyOnResultsWrites ==
    [][WritesCalibration => lastOp' = "onResults"]_vars

\* C8, amended: the sample buffer and the calibration matrix are written by
\* onResults and by the start command only
C8_OnResultsAndStartWrite ==
    [][WritesCalibration => lastOp' \in {"onResults", "startCalibration"}]_vars

\* the start command cleared a matrix that frames had been transformed with
C8_Witness == lastOp = "startCalibration" /\ modelWriter = "startCalibration" /\ lastPath = "3d"

\* C9: a frame transformed with no calibration matrix, or with the matrix of
\* a calibration that fell back to the identity, gives the raw point
C9_IdentityPassthrough ==
    (lastOp = "onResults" /\ lastPath \in DrawPaths /\ calibrationMatrix \in {<<>>, IdentityFallback})
        => drawn = raw

\* 0 <= x <= width and 0 <= y <= height
InBounds(p, size) ==
    /\ JLe(0, p.x) /\ JLe(p.x, size[1] * SCALE)
    /\ JLe(0, p.y) /\ JLe(p.y, size[2] * SCALE)

\* C10: the point a frame gives, drawn, posted or given to the gaze point
\* indicator, lies in the window
C10_OutputsInBounds ==
    /\ (lastOp = "onResults" /\ lastPath \in DrawPaths) => InBounds(drawn, win)
    /\ (lastOp = "onResults" /\ lastPath \in DrawPaths /\ posted = drawn) => InBounds(posted, win)
    /\ (lastOp = "trackerOnResults") => InBounds(tjsGazePoint, tjsScreen)

\* the face of the frame the last onResults was given
LastFace == (CHOOSE f \in Frames \cup CollectFrames : f.kind = "face" /\ f.name = lastFrame).face

\* the last onResults went through the try block as far as the fused gaze vector
LastFrameHasGaze ==
    /\ lastOp = "onResults"
    /\ lastPath \in {"3d", "catch_2d"}
    /\ lastFrame \in FaceFrameNames
    /\ Has3DTracking(LastFace)
    /\ HeadPose3D(LastFace).ok
    /\ ~EyesThrow(LastFace)

\* the fused gaze vector of the last frame
LastGazeVector == GazeVector(LastFace, HeadPose3D(LastFace).v)

\* (width / 2, height / 2)
ScreenCentre == Pt((win[1] * SCALE) \div 2, (win[2] * SCALE) \div 2)

\* C11: a frame whose fused gaze vector has z <= 0 gives the screen centre,
\* and a frame whose gaze vector has z > 0 gives the intersection point of
\* the 3D path
C11_LookingAwaySentinel ==
    LastFrameHasGaze =>
        IF JLe(LastGazeVector.z, 0)
        THEN drawn = ScreenCentre
        ELSE lastPath = "3d"

\* C12: no frame makes an onResults callback end with an exception: whatever
\* the frame holds, the callback returns and the next frame is processed
C12_NoFrameHalts == callback # "threw"

\* the eye (1 left, 2 right) of the face the direct tracker was last given
LastEye(i) == EyeOf(DirectFace(lastFrame), IF i = 1 THEN leftEye ELSE rightEye)

\* an iris extent is zero, or the height exceeds the width
DegenerateIris(eye) ==
    \/ irisWidthX(eye) = 0
    \/ irisHeightY(eye) = 0
    \/ JLt(SCALE, JDiv(irisHeightY(eye), irisWidthX(eye)))

FiniteVector(v) == IsFin(v.x) /\ IsFin(v.y) /\ IsFin(v.z)

\* C14: calculateEyeRotation gives the rotation (0, 0, 0) for an iris whose
\* extents are degenerate, and never a NaN or an infinity, and the gaze point
\* drawn from it is finite
C14_EyeRotationGuarded ==
    (lastOp = "directOnResults" /\ callback = "returned") =>
        /\ \A i \in 1..2 :
              /\ FiniteVector(eyeRotations[i])
              /\ DegenerateIris(LastEye(i)) => eyeRotations[i] = P3(0, 0, 0)
        /\ IsFin(cursor.x) /\ IsFin(cursor.y)

\* C13: every point posted to the output sink carries a confidence between 0
\* and 1, and the point of a failed 3D estimate carries the confidence 0
C13_PostedCarriesConfidence ==
    (posted # NoPoint) =>
        /\ "confidence" \in DOMAIN posted
        /\ posted.confidence \in 0..SCALE
        /\ (lastPath = "catch_2d") => (posted.confidence = 0)

\* the samples all lie on one line through the origin of the gaze plane: the
\* empty set, a single sample and identical samples are such sets
SingularSamples(e) ==
    \A i, j \in 1..Len(e) : MulFix(e[i].x, e[j].y) = MulFix(e[i].y, e[j].x)

FiniteMatrix(m) ==
    /\ Len(m) = 2
    /\ \A r \in 1..2 : Len(m[r]) = 3 /\ \A k \in 1..3 : IsFin(m[r][k])

\* C15: given a singular sample set, the solver returns a matrix of finite
\* coefficients
C15_SingularSetGivesFiniteModel ==
    (lastOp = "solve" /\ SingularSamples(solverInput.eyePositions)) => FiniteMatrix(calibrationMatrix)

\* the solver was given four identical samples
C15_Witness ==
    /\ lastOp = "solve"
    /\ Len(solverInput.eyePositions) = MaxRepeat
    /\ solverInput.eyePositions[1] = P3(SCALE, 2 * SCALE, 0 - Dec(5, 10))
    /\ SingularSamples(solverInput.eyePositions)
    /\ FiniteMatrix(calibrationMatrix)

\* the 9 samples have the targets 2 * gaze + 3
LinearSamples(input) ==
    /\ Len(input.eyePositions) = 9
    /\ \A k \in 1..9 : input.screenPositions[k] = LinearTarget(input.eyePositions[k])

\* C16: from 9 noise-free samples whose target is 2 * gaze + 3 on each
\* coordinate the solver returns the coefficient 2 and the intercept 3
C16_RecoversLinearMapping ==
    (lastOp = "solve" /\ LinearSamples(solverInput)) =>
        calibrationMatrix = << <<2 * SCALE, 0, 3 * SCALE>>, <<0, 2 * SCALE, 3 * SCALE>> >>

\* what a tracking handler outputs for the last frame, from the frame, the
\* window size, the calibration matrix and the presence of the output sink
OutputOfLastFrame ==
    Handle(Closure(TRUE, "idle", calibrationMatrix, InitialCalibrationState),
           FaceFrame(lastFrame, LastFace), win[1], win[2], cursorControl)

UncompensatedGaze ==
    VMid(EyePosition(LastFace, 468, 33, 133, 159, 145), EyePosition(LastFace, 473, 362, 263, 386, 374))

\* the last frame went into the try block with a degenerate face normal, and
\* its eyes give a 3D estimate when the compensation is left out
DegenerateHeadPoseFrame ==
    /\ lastOp = "onResults"
    /\ lastPath \in {"3d", "catch_2d", "catch_no_eyes"}
    /\ lastFrame \in FaceFrameNames
    /\ Has3DTracking(LastFace)
    /\ ~HeadPose3D(LastFace).ok
    /\ ~EyesThrow(LastFace)
    /\ Gaze3DFromVector(win[1], win[2], P3(0, 0, 0), UncompensatedGaze).ok

\* C19: a frame whose face normal is degenerate is still processed by the 3D
\* path, with the head pose the zero vector and the compensation skipped
C19_DegenerateHeadPoseKeeps3D == DegenerateHeadPoseFrame => (lastPath = "3d")

\* C20: a calibration whose solver input has fewer than 4 samples contributes
\* no transform: the calibration matrix stays empty
C20_FewSamplesGiveNoTransform ==
    (solverCalls > 0 /\ Len(solverInput.eyePositions) < 4) => (calibrationMatrix = <<>>)

\* C21: in every collecting state a command is available to the user, so the
\* session can be sent back to idle
C21_AbortAvailable ==
    (calibrationMode = "collecting") => ENABLED (ToggleTracking \/ StartCalibration)

\* the session state and the calibration model
Session == <<calibrationMode, calibrationState, calibrationMatrix>>

\* C22: a step that is neither a frame delivery nor a command leaves the
\* calibration mode, the target index, the sample buffers and the calibration
\* matrix as they are
C22_NoInputNoChange ==
    [][(lastOp' \notin {"onResults", "startCalibration", "toggleTracking"}) => UNCHANGED Session]_vars

\* a collecting session outlived a step that was neither a frame nor a command
C22_Witness == lastOp = "resize" /\ calibrationMode = "collecting" /\ calibrationMatrix = <<>>

\* both iris-centre landmarks are present, with a depth
IrisesWithDepth(face) ==
    /\ Has(face, 468) /\ Has(face, 473)
    /\ At(face, 468).z # Undef /\ At(face, 473).z # Undef

\* the last onResults got past its guards with a face
FaceProcessed ==
    /\ lastOp = "onResults"
    /\ lastFrame \in FaceFrameNames
    /\ lastPath \notin {"guard", "no_landmarks", "no_face", "none"}

C27_TargetIndexInRange ==
    /\ currentPoint \in 0 .. 8
    /\ currentPoint + 1 \in DOMAIN CALIBRATION_POINTS
    /\ trackClosure.calibrationState.currentPoint \in 0 .. 8

\* the session is at its last target with samples recorded
C27_Witness ==
    /\ calibrationMode = "collecting"
    /\ currentPoint = 8
    /\ Len(calibrationState.eyePositions) > 0

\* the two buffers have one length, of at most 30
BuffersAligned ==
    /\ Len(calibrationState.eyePositions) = Len(calibrationState.headPoses)
    /\ Len(calibrationState.eyePositions) <= 30

C29_AdjustmentIsProjection ==
    (adjusted # <<>> /\ IsUnit(adjustArgs.headPose)) =>
        /\ VDot(adjusted[1], adjustArgs.headPose) = 0
        /\ adjusted[2] = adjusted[1]

\* a gaze vector with a component along an oblique unit head pose was adjusted
\* and something of it remains
C29_Witness ==
    /\ adjusted # <<>>
    /\ adjustArgs.headPose = P3(600, 800, 0)
    /\ VDot(adjustArgs.vector, adjustArgs.headPose) # 0
    /\ adjusted[1] # adjustArgs.vector
    /\ adjusted[1] # P3(0, 0, 0)

\* C30: at most one autosave timeout is pending; a change of title or
\* content leaves exactly the timeout started by that change; the timeout
\* calls onSave only when a full delay has passed since the last change and
\* title or content is non-empty, and with the current title and content;
\* nothing else makes an autosave call.
C30_AutosaveDebounced ==
    [][/\ Cardinality(timers') <= 1
       /\ (title' # title \/ content' # content) => timers' = {Timer(title', content')}
       /\ (lastOp' = "autosave") =>
             /\ sinceChange >= AutosaveDelay
             /\ title # "" \/ content # ""
             /\ lastSave' = [kind |-> "autosave", title |-> title, content |-> content]
             /\ timers' = {}
       /\ (lastSave'.kind = "autosave" /\ lastSave' # lastSave) => lastOp' = "autosave"]_vars

\* the fields were edited to texts the report never held, a full delay
\* passed, and the timeout saved them
C30_Witness ==
    /\ lastOp = "autosave"
    /\ lastSave = [kind |-> "autosave", title |-> "b", content |-> "b"]
    /\ title = "b"
    /\ content = "b"
    /\ timers = {}
    /\ sinceChange = AutosaveDelay

====
